---------------------------- MODULE Spec2Model ----------------------------
(***************************************************************************)
(* Model of the form_validator package (src/validator.go).                 *)
(*                                                                         *)
(* Go strings and byte slices are sequences of bytes (0..255); the fixed   *)
(* texts of error messages are kept as TLA+ strings in the fmt field of a  *)
(* message and their formatted argument as bytes.  An int64 is kept in     *)
(* sign-magnitude decimal form so that the whole 64-bit range is covered.  *)
(***************************************************************************)
EXTENDS Integers, Sequences, FiniteSets, TLC

\* ------------------------------------------------------------------------
\* Bounds of the model
\* ------------------------------------------------------------------------
\* longest list of ValidationFuncs handed to String / Int
MaxValidations == 2
\* longest list of format names handed to ImageConfig
MaxFormats == 2

\* ------------------------------------------------------------------------
\* Byte strings used by the program and by the inputs
\* ------------------------------------------------------------------------
Empty == <<>>
\* "image/jpeg"
MimeJPEG == <<105, 109, 97, 103, 101, 47, 106, 112, 101, 103>>
\* "image/png"
MimePNG == <<105, 109, 97, 103, 101, 47, 112, 110, 103>>
\* "image/gif"
MimeGIF == <<105, 109, 97, 103, 101, 47, 103, 105, 102>>
\* "image/webp"
MimeWEBP == <<105, 109, 97, 103, 101, 47, 119, 101, 98, 112>>
\* "image/x-icon", "image/bmp"
MimeICON == <<105, 109, 97, 103, 101, 47, 120, 45, 105, 99, 111, 110>>
MimeBMP == <<105, 109, 97, 103, 101, 47, 98, 109, 112>>
\* "text/plain; charset=utf-8"
MimeTextUTF8 == <<116, 101, 120, 116, 47, 112, 108, 97, 105, 110, 59, 32, 99, 104, 97, 114, 115, 101, 116, 61, 117, 116, 102, 45, 56>>
\* "application/octet-stream"
MimeOctet == <<97, 112, 112, 108, 105, 99, 97, 116, 105, 111, 110, 47, 111, 99, 116, 101, 116, 45, 115, 116, 114, 101, 97, 109>>
\* "image/" and "text/plain": allowed-type entries of hand-built configs
s_imagePrefix == <<105, 109, 97, 103, 101, 47>>
s_textPlain == <<116, 101, 120, 116, 47, 112, 108, 97, 105, 110>>

\* format names: "jpg" "jpeg" "png" "gif" "webp" "JPG" "Png" "bmp"
s_jpg == <<106, 112, 103>>
s_jpeg == <<106, 112, 101, 103>>
s_png == <<112, 110, 103>>
s_gif == <<103, 105, 102>>
s_webp == <<119, 101, 98, 112>>
s_JPG == <<74, 80, 71>>
s_Png == <<80, 110, 103>>
s_bmp == <<98, 109, 112>>

\* extensions: ".jpg" ".jpeg" ".png" ".gif" ".webp" ".txt" ".JPG"
e_jpg == <<46, 106, 112, 103>>
e_jpeg == <<46, 106, 112, 101, 103>>
e_png == <<46, 112, 110, 103>>
e_gif == <<46, 103, 105, 102>>
e_webp == <<46, 119, 101, 98, 112>>
e_txt == <<46, 116, 120, 116>>
e_JPG == <<46, 74, 80, 71>>

\* file names: "test.jpg" "test.txt" "PHOTO.JPG" "a.d/raw" "big.png"
n_testjpg == <<116, 101, 115, 116, 46, 106, 112, 103>>
n_testtxt == <<116, 101, 115, 116, 46, 116, 120, 116>>
n_PHOTOJPG == <<80, 72, 79, 84, 79, 46, 74, 80, 71>>
n_raw == <<97, 46, 100, 47, 114, 97, 119>>
n_bigpng == <<98, 105, 103, 46, 112, 110, 103>>

\* form values: "jo" "25" " " "-7" "12a" "jé" (UTF-8)
\* "9223372036854775808" (2^63) and "-9223372036854775808" (-2^63)
s_jo == <<106, 111>>
s_25 == <<50, 53>>
s_blank == <<32>>
s_neg7 == <<45, 55>>
s_12a == <<49, 50, 97>>
s_je == <<106, 195, 169>>
s_over == <<57, 50, 50, 51, 51, 55, 50, 48, 51, 54, 56, 53, 52, 55, 55, 53, 56, 48, 56>>
s_min == <<45, 57, 50, 50, 51, 51, 55, 50, 48, 51, 54, 56, 53, 52, 55, 55, 53, 56, 48, 56>>

\* ", "
s_commaSpace == <<44, 32>>

\* ------------------------------------------------------------------------
\* Package strings: ToLower, TrimSpace, HasPrefix, Join; strconv
\* ------------------------------------------------------------------------
Min(a, b) == IF a < b THEN a ELSE b

\* strings.ToLower on ASCII letters 'A'..'Z'
LowerByte(c) == IF c >= 65 /\ c <= 90 THEN c + 32 ELSE c
ToLower(s) == [i \in 1..Len(s) |-> LowerByte(s[i])]

\* '\t' '\n' '\v' '\f' '\r' ' '
IsSpace(c) == (c >= 9 /\ c <= 13) \/ c = 32

\* strings.TrimSpace, on the ASCII white space
TrimSpace(s) ==
  LET keep == {i \in 1..Len(s) : ~IsSpace(s[i])}
  IN IF keep = {} THEN <<>>
     ELSE LET lo == CHOOSE i \in keep : \A j \in keep : i <= j
              hi == CHOOSE i \in keep : \A j \in keep : j <= i
          IN SubSeq(s, lo, hi)

\* strings.HasPrefix
HasPrefix(s, prefix) ==
  Len(s) >= Len(prefix) /\ SubSeq(s, 1, Len(prefix)) = prefix

\* strings.Join
RECURSIVE Join(_, _)
Join(elems, sep) ==
  IF Len(elems) = 0 THEN <<>>
  ELSE IF Len(elems) = 1 THEN elems[1]
  ELSE elems[1] \o sep \o Join(Tail(elems), sep)

\* utf8.RuneCountInString on well-formed UTF-8: every byte that is not a
\* continuation byte (10xxxxxx) starts one code point
RuneCountInString(s) ==
  Cardinality({i \in 1..Len(s) : ~(s[i] >= 128 /\ s[i] <= 191)})

\* the decimal digits of a natural number, as fmt's %d writes them
RECURSIVE Digits(_)
Digits(n) == IF n < 10 THEN <<48 + n>> ELSE Digits(n \div 10) \o <<48 + (n % 10)>>
FormatInt(n) == IF n < 0 THEN <<45>> \o Digits(0 - n) ELSE Digits(n)

\* An int64 in sign-magnitude form: mag holds the decimal digits (0..9)
\* without leading zeros, zero is the empty magnitude
Int64(neg, mag) == [neg |-> neg, mag |-> mag]
Int64Zero == Int64(FALSE, <<>>)
\* 2^63 = 9223372036854775808
Cutoff == <<9, 2, 2, 3, 3, 7, 2, 0, 3, 6, 8, 5, 4, 7, 7, 5, 8, 0, 8>>

IsDigit(c) == c >= 48 /\ c <= 57

RECURSIVE StripZeros(_)
StripZeros(d) == IF d # <<>> /\ d[1] = 0 THEN StripZeros(Tail(d)) ELSE d

\* a < b for magnitudes without leading zeros
MagLess(a, b) ==
  \/ Len(a) < Len(b)
  \/ /\ Len(a) = Len(b)
     /\ \E i \in 1..Len(a) : a[i] < b[i] /\ \A j \in 1..(i - 1) : a[j] = b[j]

\* strconv.ParseInt(s, 10, 64): err is a syntax or a range error
ParseInt(s) ==
  IF s = <<>> THEN [err |-> TRUE, val |-> Int64Zero]
  ELSE LET neg == s[1] = 45
           body == IF s[1] = 43 \/ s[1] = 45 THEN Tail(s) ELSE s
       IN IF body = <<>> \/ \E i \in 1..Len(body) : ~IsDigit(body[i])
          THEN [err |-> TRUE, val |-> Int64Zero]
          ELSE LET un == StripZeros([i \in 1..Len(body) |-> body[i] - 48])
               IN IF ~neg /\ ~MagLess(un, Cutoff)
                  THEN [err |-> TRUE, val |-> Int64Zero]
                  ELSE IF neg /\ MagLess(Cutoff, un)
                  THEN [err |-> TRUE, val |-> Int64Zero]
                  ELSE [err |-> FALSE, val |-> Int64(neg /\ un # <<>>, un)]

\* strconv.ParseBool: "1" "t" "T" "TRUE" "true" "True" "0" "f" "F" "FALSE"
\* "false" "False"
BoolTokens ==
  { <<49>>, <<116>>, <<84>>, <<84, 82, 85, 69>>, <<116, 114, 117, 101>>,
    <<84, 114, 117, 101>>, <<48>>, <<102>>, <<70>>, <<70, 65, 76, 83, 69>>,
    <<102, 97, 108, 115, 101>>, <<70, 97, 108, 115, 101>> }
ParseBoolErr(s) == s \notin BoolTokens


\* path/filepath.Ext: the suffix of the last path element from its last dot
Ext(path) ==
  LET dots == {i \in 1..Len(path) :
                 /\ path[i] = 46
                 /\ \A j \in i..Len(path) : path[j] # 47}
  IN IF dots = {} THEN <<>>
     ELSE LET i == CHOOSE d \in dots : \A e \in dots : e <= d
          IN SubSeq(path, i, Len(path))

\* ------------------------------------------------------------------------
\* Error messages: the fixed text and its formatted argument
\* ------------------------------------------------------------------------
Msg(text, arg) == [fmt |-> text, arg |-> arg]
\* the empty message a passing ValidationFunc returns
NoMsg == Msg("", <<>>)

MsgNoFile == Msg("No file was uploaded", <<>>)
MsgSize(maxSize) ==
  Msg("File size exceeds maximum limit of %d bytes", FormatInt(maxSize))
MsgExt(exts) ==
  Msg("Invalid file extension. Allowed: %s", Join(exts, s_commaSpace))
MsgOpen == Msg("Could not process file", <<>>)
MsgRead == Msg("Could not read file content", <<>>)
MsgType(types) ==
  Msg("Invalid file type. Allowed: %s", Join(types, s_commaSpace))
MsgInt == Msg("This field must be a valid integer", <<>>)

\* ------------------------------------------------------------------------
\* ValidationFuncs.  A ValidationFunc value is a record naming the function
\* and the values its closure captured: n (min or max), slice (the allowed
\* list of InStringSlice; for Custom the values its check accepts), msg
\* (the caller's message of Custom).
\* ------------------------------------------------------------------------
VF(kind, n, slice, msg) == [kind |-> kind, n |-> n, slice |-> slice, msg |-> msg]
Result(ok, message) == [ok |-> ok, message |-> message]
Pass == Result(TRUE, NoMsg)

Required(field, value) ==
  IF TrimSpace(value) = <<>>
  THEN Result(FALSE, Msg("This field is required", <<>>))
  ELSE Pass

MinLength(min, field, value) ==
  IF RuneCountInString(value) < min
  THEN Result(FALSE, Msg("This field must be at least %d characters long",
                         FormatInt(min)))
  ELSE Pass

MaxLength(max, field, value) ==
  IF RuneCountInString(value) > max
  THEN Result(FALSE, Msg("This field must not exceed %d characters",
                         FormatInt(max)))
  ELSE Pass

Boolean(field, value) ==
  IF ParseBoolErr(TrimSpace(ToLower(value)))
  THEN Result(FALSE, Msg("This field must be true or false", <<>>))
  ELSE Pass

IntRange(min, max, field, value) == Pass

InStringSlice(slice, field, value) ==
  IF \E i \in 1..Len(slice) : slice[i] = value
  THEN Pass
  ELSE Result(FALSE, Msg("This value is not in the allowed list", <<>>))

\* check(value) is membership in the set of values the check accepts
Custom(accepts, message, field, value) ==
  IF ~(\E i \in 1..Len(accepts) : accepts[i] = value)
  THEN Result(FALSE, Msg(message, <<>>))
  ELSE Pass

\* the call validation(field, value)
Validate(vf, field, value) ==
  CASE vf.kind = "Required" -> Required(field, value)
    [] vf.kind = "MinLength" -> MinLength(vf.n, field, value)
    [] vf.kind = "MaxLength" -> MaxLength(vf.n, field, value)
    [] vf.kind = "Boolean" -> Boolean(field, value)
    [] vf.kind = "IntRange" -> IntRange(0, vf.n, field, value)
    [] vf.kind = "InStringSlice" -> InStringSlice(vf.slice, field, value)
    [] vf.kind = "Custom" -> Custom(vf.slice, vf.msg, field, value)

\* ------------------------------------------------------------------------
\* net/http.DetectContentType, as Image calls it
\* ------------------------------------------------------------------------
\* bytes of the sniffing buffer
SniffLen == 512

\* '\t' '\n' '\f' '\r' ' '
IsWS(b) == b = 9 \/ b = 10 \/ b = 12 \/ b = 13 \/ b = 32

\* the bytes a text file cannot hold
IsBinaryByte(b) ==
  \/ b <= 8
  \/ b = 11
  \/ (b >= 14 /\ b <= 26)
  \/ (b >= 28 /\ b <= 31)

\* "RIFF????WEBPVP": the four size bytes are masked out
WebpPattern == <<82, 73, 70, 70, 0, 0, 0, 0, 87, 69, 66, 80, 86, 80>>
WebpMask == <<255, 255, 255, 255, 0, 0, 0, 0, 255, 255, 255, 255, 255, 255>>
MaskedMatch(data, pat, mask) ==
  /\ Len(data) >= Len(pat)
  /\ \A i \in 1..Len(pat) : (IF mask[i] = 0 THEN 0 ELSE data[i]) = pat[i]

\* The image signatures of the sniffing table in table order, then the text
\* signature and the fallback.  The table's other signatures (HTML, XML,
\* PDF, PostScript, byte-order marks, audio, video, fonts, archives, wasm)
\* start with bytes that no file content of this model starts with.
DetectContentType(buffer) ==
  LET data == SubSeq(buffer, 1, Min(Len(buffer), SniffLen))
      ws == {i \in 1..Len(data) : ~IsWS(data[i])}
      firstNonWS == IF ws = {} THEN Len(data) + 1
                    ELSE CHOOSE i \in ws : \A j \in ws : i <= j
  IN IF HasPrefix(data, <<0, 0, 1, 0>>) THEN MimeICON
     ELSE IF HasPrefix(data, <<0, 0, 2, 0>>) THEN MimeICON
     ELSE IF HasPrefix(data, <<66, 77>>) THEN MimeBMP
     ELSE IF HasPrefix(data, <<71, 73, 70, 56, 55, 97>>) THEN MimeGIF
     ELSE IF HasPrefix(data, <<71, 73, 70, 56, 57, 97>>) THEN MimeGIF
     ELSE IF MaskedMatch(data, WebpPattern, WebpMask) THEN MimeWEBP
     ELSE IF HasPrefix(data, <<137, 80, 78, 71, 13, 10, 26, 10>>) THEN MimePNG
     ELSE IF HasPrefix(data, <<255, 216, 255>>) THEN MimeJPEG
     ELSE IF \A i \in firstNonWS..Len(data) : ~IsBinaryByte(data[i])
     THEN MimeTextUTF8
     ELSE MimeOctet

\* ------------------------------------------------------------------------
\* FileValidationConfig and ImageConfig
\* ------------------------------------------------------------------------
FileValidationConfig(maxSize, types, exts) ==
  [MaxSize |-> maxSize, AllowedTypes |-> types, AllowedExts |-> exts]

DefaultImageFormats == <<s_jpg, s_jpeg, s_png, s_gif, s_webp>>

\* one turn of the loop of ImageConfig: the switch on the lower-cased name
RECURSIVE ExpandFormats(_, _, _)
ExpandFormats(formats, mimeTypes, extensions) ==
  IF formats = <<>> THEN <<mimeTypes, extensions>>
  ELSE LET format == ToLower(formats[1])
           rest == Tail(formats)
       IN CASE format = s_jpg \/ format = s_jpeg ->
                 ExpandFormats(rest, Append(mimeTypes, MimeJPEG),
                               extensions \o <<e_jpg, e_jpeg>>)
            [] format = s_png ->
                 ExpandFormats(rest, Append(mimeTypes, MimePNG),
                               Append(extensions, e_png))
            [] format = s_gif ->
                 ExpandFormats(rest, Append(mimeTypes, MimeGIF),
                               Append(extensions, e_gif))
            [] format = s_webp ->
                 ExpandFormats(rest, Append(mimeTypes, MimeWEBP),
                               Append(extensions, e_webp))
            [] OTHER -> ExpandFormats(rest, mimeTypes, extensions)

\* ImageConfig without the default: no format names, nothing allowed
ImageConfig_NoDefault(maxSize, formats) ==
  LET x == ExpandFormats(formats, <<>>, <<>>)
  IN FileValidationConfig(maxSize, x[1], x[2])

ImageConfig(maxSize, formats) ==
  LET fs == IF Len(formats) = 0 THEN DefaultImageFormats ELSE formats
      x == ExpandFormats(fs, <<>>, <<>>)
  IN FileValidationConfig(maxSize, x[1], x[2])

\* ------------------------------------------------------------------------
\* The Validator
\* ------------------------------------------------------------------------
VARIABLES
  Errors,       \* Validator.Errors: field -> message, a partial map
  values,       \* Validator.values: field -> string, a partial map
  files,        \* Validator.files: field -> *multipart.FileHeader
  call,         \* the last call made on the validator and its arguments
  ret,          \* what the last call returned
  log,          \* the steps the last call took, in order
  openStreams,  \* the streams opened by file.Open() and not yet closed
  formats,      \* the arguments and the result of a call of ImageConfig
  maxSize,
  built

vars == <<Errors, values, files, call, ret, log, openStreams,
          formats, maxSize, built>>

\* m[k] = v on a Go map
MapSet(m, k, v) == [x \in (DOMAIN m) \cup {k} |-> IF x = k THEN v ELSE m[x]]
EmptyMap == [x \in {} |-> x]

\* a nilable pointer is the empty sequence or a sequence of one element
Nil == <<>>
Ptr(x) == <<x>>

\* multipart.FileHeader: the name, the size and the content file.Open() reads
FileHeader(name, size, content) ==
  [Filename |-> name, Size |-> size, content |-> content]

\* one step of a call: ev names the step, idx its position or a count, ok
\* its outcome, msg the message it carries, data the bytes it carries
Ev(ev, idx, ok, msg, data) ==
  [ev |-> ev, idx |-> idx, ok |-> ok, msg |-> msg, data |-> data]
\* v.Errors[field] = message
WriteEv(message) == Ev("write", 0, FALSE, message, <<>>)
\* validation(field, value) of the idx-th ValidationFunc
EvalEv(idx, r) == Ev("eval", idx, r.ok, r.message, <<>>)
\* a configured check of Image (size, ext, type) and its outcome
CheckEv(name, ok) == Ev(name, 0, ok, NoMsg, <<>>)

\* the messages a call wrote to Errors[field], in order
Writes(l) == SelectSeq(l, LAMBDA e : e.ev = "write")

\* ApplyWrites that starts a fresh map on a write: the other fields' errors
\* are lost
ApplyWrites_Fresh(errs, field, l) ==
  LET w == Writes(l)
  IN IF w = <<>> THEN errs ELSE MapSet(EmptyMap, field, w[Len(w)].msg)

\* ApplyWrites that revalidates: a call that records nothing removes the
\* error of its field
ApplyWrites_ClearOnPass(errs, field, l) ==
  LET w == Writes(l)
  IN IF w = <<>> THEN [x \in (DOMAIN errs) \ {field} |-> errs[x]]
     ELSE MapSet(errs, field, w[Len(w)].msg)

\* the Errors map after the writes of a call on field
ApplyWrites(errs, field, l) ==
  LET w == Writes(l)
  IN IF w = <<>> THEN errs ELSE MapSet(errs, field, w[Len(w)].msg)

\* v.GetValue(field): the zero value "" for a missing key
GetValue(vals, field) == IF field \in DOMAIN vals THEN vals[field] ELSE <<>>
\* v.GetFile(field): nil for a missing key
GetFile(fs, field) == IF field \in DOMAIN fs THEN fs[field] ELSE Nil

\* RunValidations without the break: a failure does not end the loop
RECURSIVE RunValidations_NoBreak(_, _, _, _)
RunValidations_NoBreak(validations, i, field, value) ==
  IF i > Len(validations) THEN <<>>
  ELSE LET r == Validate(validations[i], field, value)
       IN (IF ~r.ok THEN <<EvalEv(i, r), WriteEv(r.message)>> ELSE <<EvalEv(i, r)>>)
            \o RunValidations_NoBreak(validations, i + 1, field, value)

\* the loop over validations in String and Int, from the i-th on
RECURSIVE RunValidations(_, _, _, _)
RunValidations(validations, i, field, value) ==
  IF i > Len(validations) THEN <<>>
  ELSE LET r == Validate(validations[i], field, value)
       IN IF ~r.ok
          THEN <<EvalEv(i, r), WriteEv(r.message)>>
          ELSE <<EvalEv(i, r)>> \o RunValidations(validations, i + 1, field, value)

\* the body of Validator.String
StringRun(vals, field, validations) ==
  LET value == GetValue(vals, field)
  IN [log |-> RunValidations(validations, 1, field, value), str |-> value]

\* IntRun that keeps the first error: the parse failure is recorded only
\* when no validation failed
IntRun_KeepFirst(vals, field, validations) ==
  LET value == GetValue(vals, field)
      l == RunValidations(validations, 1, field, value)
      p == ParseInt(value)
  IN IF p.err
     THEN [log |-> IF Writes(l) = <<>> THEN Append(l, WriteEv(MsgInt)) ELSE l,
           int |-> Int64Zero]
     ELSE [log |-> l, int |-> p.val]

\* IntRun that gives up after a failed validation: it returns 0 without
\* parsing
IntRun_StopOnFailure(vals, field, validations) ==
  LET value == GetValue(vals, field)
      l == RunValidations(validations, 1, field, value)
      p == ParseInt(value)
  IN IF Writes(l) # <<>> THEN [log |-> l, int |-> Int64Zero]
     ELSE IF p.err
     THEN [log |-> Append(l, WriteEv(MsgInt)), int |-> Int64Zero]
     ELSE [log |-> l, int |-> p.val]

\* the body of Validator.Int
IntRun(vals, field, validations) ==
  LET value == GetValue(vals, field)
      l == RunValidations(validations, 1, field, value)
      p == ParseInt(value)
  IN IF p.err
     THEN [log |-> Append(l, WriteEv(MsgInt)), int |-> Int64Zero]
     ELSE [log |-> l, int |-> p.val]

\* ------------------------------------------------------------------------
\* Validator.Image, bottom up.  io is what the file system does during the
\* call: "ok", "open" (file.Open() fails) or "read" (f.Read fails with an
\* error other than io.EOF).
\* ------------------------------------------------------------------------
Outcome(l, file) == [log |-> l, file |-> file]

\* the steps taken before r was computed, then r
After(steps, r) == Outcome(steps \o r.log, r.file)

\* buffer := make([]byte, 512); n, err = f.Read(buffer): the first n =
\* min(512, len(content)) bytes are the file's, the rest stay zero
ReadBuffer(content) ==
  [i \in 1..SniffLen |-> IF i <= Len(content) THEN content[i] ELSE 0]
ReadCount(content) == Min(Len(content), SniffLen)

\* the argument Image hands to http.DetectContentType
SniffInput(buffer, n) == buffer

\* the loop over config.AllowedTypes
ValidType(detectedType, allowedTypes) ==
  \E i \in 1..Len(allowedTypes) : HasPrefix(detectedType, allowedTypes[i])

\* the loop over config.AllowedExts
ValidExt(ext, allowedExts) ==
  \E i \in 1..Len(allowedExts) : ToLower(allowedExts[i]) = ext

\* the call of http.DetectContentType on an input of the given length
SniffEv(inputLen, detectedType) == Ev("sniff", inputLen, TRUE, NoMsg, detectedType)

\* the type check on detectedType and return file
ImageType(file, config, inputLen, detectedType) ==
  IF Len(config.AllowedTypes) > 0
  THEN IF ~ValidType(detectedType, config.AllowedTypes)
       THEN Outcome(<<SniffEv(inputLen, detectedType), CheckEv("type", FALSE),
                      WriteEv(MsgType(config.AllowedTypes))>>, Nil)
       ELSE Outcome(<<SniffEv(inputLen, detectedType), CheckEv("type", TRUE)>>,
                    Ptr(file))
  ELSE Outcome(<<SniffEv(inputLen, detectedType)>>, Ptr(file))

\* detectedType := http.DetectContentType(buffer) and what follows it
ImageSniff(file, config, buffer, n) ==
  ImageType(file, config, Len(SniffInput(buffer, n)),
            DetectContentType(SniffInput(buffer, n)))

\* from buffer := make(...) to return file, on the open stream f
ImageRead(file, config, io) ==
  IF io = "read"
  THEN Outcome(<<Ev("read", 0, FALSE, NoMsg, <<>>), WriteEv(MsgRead)>>, Nil)
  ELSE After(<<Ev("read", ReadCount(file.content), TRUE, NoMsg, <<>>)>>,
             ImageSniff(file, config, ReadBuffer(file.content),
                        ReadCount(file.content)))

\* defer f.Close(): the close runs when Image returns, after everything
\* else r did on the open stream
Deferred(r) ==
  Outcome(<<Ev("open", 0, TRUE, NoMsg, <<>>)>> \o r.log
            \o <<Ev("close", 0, TRUE, NoMsg, <<>>)>>, r.file)

\* the same with f.Close() written before the final return instead of
\* deferred: the failure paths leave the stream open
Deferred_OnSuccessOnly(r) ==
  Outcome(<<Ev("open", 0, TRUE, NoMsg, <<>>)>> \o r.log
            \o (IF r.file # Nil THEN <<Ev("close", 0, TRUE, NoMsg, <<>>)>>
                ELSE <<>>), r.file)

\* ImageOpen with the close on the success path only
ImageOpen_CloseOnSuccess(file, config, io) ==
  IF io = "open"
  THEN Outcome(<<Ev("open", 0, FALSE, NoMsg, <<>>), WriteEv(MsgOpen)>>, Nil)
  ELSE Deferred_OnSuccessOnly(ImageRead(file, config, io))

\* f, err := file.Open(), the deferred close and what follows
ImageOpen(file, config, io) ==
  IF io = "open"
  THEN Outcome(<<Ev("open", 0, FALSE, NoMsg, <<>>), WriteEv(MsgOpen)>>, Nil)
  ELSE Deferred(ImageRead(file, config, io))

\* the steps of a check that is configured and passes
Passed(configured, name) == IF configured THEN <<CheckEv(name, TRUE)>> ELSE <<>>

\* ImageExt without the return after a bad extension: the later checks run
\* and may record a second error
ImageExt_FallThrough(file, config, io) ==
  IF Len(config.AllowedExts) > 0
       /\ ~ValidExt(ToLower(Ext(file.Filename)), config.AllowedExts)
  THEN After(<<CheckEv("ext", FALSE), WriteEv(MsgExt(config.AllowedExts))>>,
             Outcome(ImageOpen(file, config, io).log, Nil))
  ELSE After(Passed(Len(config.AllowedExts) > 0, "ext"), ImageOpen(file, config, io))

\* the extension check and what follows it
ImageExt(file, config, io) ==
  IF Len(config.AllowedExts) > 0
       /\ ~ValidExt(ToLower(Ext(file.Filename)), config.AllowedExts)
  THEN Outcome(<<CheckEv("ext", FALSE), WriteEv(MsgExt(config.AllowedExts))>>, Nil)
  ELSE After(Passed(Len(config.AllowedExts) > 0, "ext"), ImageOpen(file, config, io))

\* ImageSize with >= for >: a file of exactly MaxSize bytes is rejected
ImageSize_AtLeast(file, config, io) ==
  IF config.MaxSize > 0 /\ file.Size >= config.MaxSize
  THEN Outcome(<<CheckEv("size", FALSE), WriteEv(MsgSize(config.MaxSize))>>, Nil)
  ELSE After(Passed(config.MaxSize > 0, "size"), ImageExt(file, config, io))

\* the size check and what follows it
ImageSize(file, config, io) ==
  IF config.MaxSize > 0 /\ file.Size > config.MaxSize
  THEN Outcome(<<CheckEv("size", FALSE), WriteEv(MsgSize(config.MaxSize))>>, Nil)
  ELSE After(Passed(config.MaxSize > 0, "size"), ImageExt(file, config, io))

\* the body of Validator.Image on file = v.files[field]
ImageFile(file, config, io) ==
  IF file = Nil
  THEN Outcome(<<Ev("present", 0, FALSE, NoMsg, <<>>), WriteEv(MsgNoFile)>>, Nil)
  ELSE After(<<Ev("present", 0, TRUE, NoMsg, <<>>)>>, ImageSize(file[1], config, io))

ImageRun(fs, field, config, io) == ImageFile(GetFile(fs, field), config, io)

\* streams opened and streams closed by a call
Opened(l) == Len(SelectSeq(l, LAMBDA e : e.ev = "open" /\ e.ok))
Closed(l) == Len(SelectSeq(l, LAMBDA e : e.ev = "close"))

\* ------------------------------------------------------------------------
\* Inputs
\* ------------------------------------------------------------------------
KB == 1024
MB == 1024 * KB

\* the form: a text field and a file field
TextFields == {"age"}
FileFields == {"avatar"}
Fields == TextFields \cup FileFields

\* "", "jo", "25", "12a", " ", "-7", "jé", 2^63, -2^63
ValueSet == {Empty, s_jo, s_25, s_12a, s_blank, s_neg7, s_je, s_over, s_min}

VFRequired == VF("Required", 0, <<>>, "")
VFMinLength(min) == VF("MinLength", min, <<>>, "")
VFIntRange(max) == VF("IntRange", max, <<>>, "")
VFCustom(accepts, message) == VF("Custom", 0, accepts, message)

ValidationFuncs ==
  { VFRequired, VFMinLength(3), VFIntRange(10),
    VFCustom(<<s_jo, s_12a>>, "Custom check failed") }

\* all lists of at most n elements of S
SeqsUpTo(S, n) == UNION {[1..k -> S] : k \in 0..n}

ValidationLists == SeqsUpTo(ValidationFuncs, MaxValidations)

\* 600 bytes after the PNG signature
BigContent ==
  [i \in 1..608 |-> IF i <= 8 THEN <<137, 80, 78, 71, 13, 10, 26, 10>>[i] ELSE 65]

FileSet ==
  { FileHeader(n_testjpg, 4, <<255, 216, 255, 224>>),
    FileHeader(n_testtxt, 2, <<104, 105>>),
    FileHeader(n_PHOTOJPG, 2, <<104, 105>>),
    FileHeader(n_raw, 0, <<>>),
    FileHeader(n_bigpng, 608, BigContent) }

ConfigSet ==
  { ImageConfig(1 * MB, <<>>),
    ImageConfig(100, <<s_png>>),
    FileValidationConfig(0, <<>>, <<>>),
    FileValidationConfig(-1, <<s_imagePrefix>>, <<>>),
    FileValidationConfig(2, <<s_textPlain>>, <<e_txt, e_JPG>>) }

IOSet == {"ok", "open", "read"}

CheckMessages == {"Passwords do not match"}

FormatNames == {s_jpg, s_jpeg, s_png, s_gif, s_webp, s_JPG, s_Png, s_bmp}
FormatLists == SeqsUpTo(FormatNames, MaxFormats)
MaxSizes == {0, 100, 1 * MB}

\* ------------------------------------------------------------------------
\* Operations
\* ------------------------------------------------------------------------
NoConfig == FileValidationConfig(0, <<>>, <<>>)
Call(op, field, validations, config, io, ok, message) ==
  [op |-> op, field |-> field, validations |-> validations, config |-> config,
   io |-> io, ok |-> ok, message |-> message]
Ret(str, int, file, valid) ==
  [str |-> str, int |-> int, file |-> file, valid |-> valid]
NoRet == Ret(<<>>, Int64Zero, Nil, TRUE)

\* New()
Init ==
  /\ Errors = EmptyMap
  /\ values = EmptyMap
  /\ files = EmptyMap
  /\ call = Call("New", "", <<>>, NoConfig, "ok", TRUE, "")
  /\ ret = NoRet
  /\ log = <<>>
  /\ openStreams = 0
  /\ formats = <<>>
  /\ maxSize = 0
  /\ built = Nil

SetValue(field, value) ==
  /\ values' = MapSet(values, field, value)
  /\ call' = Call("SetValue", field, <<>>, NoConfig, "ok", TRUE, "")
  /\ ret' = NoRet
  /\ log' = <<>>
  /\ UNCHANGED <<Errors, files, openStreams, formats, maxSize, built>>

SetFile(field, file) ==
  /\ files' = MapSet(files, field, file)
  /\ call' = Call("SetFile", field, <<>>, NoConfig, "ok", TRUE, "")
  /\ ret' = NoRet
  /\ log' = <<>>
  /\ UNCHANGED <<Errors, values, openStreams, formats, maxSize, built>>

String(field, validations) ==
  LET r == StringRun(values, field, validations)
  IN /\ Errors' = ApplyWrites(Errors, field, r.log)
     /\ call' = Call("String", field, validations, NoConfig, "ok", TRUE, "")
     /\ ret' = Ret(r.str, Int64Zero, Nil, TRUE)
     /\ log' = r.log
     /\ UNCHANGED <<values, files, openStreams, formats, maxSize, built>>

IntField(field, validations) ==
  LET r == IntRun(values, field, validations)
  IN /\ Errors' = ApplyWrites(Errors, field, r.log)
     /\ call' = Call("Int", field, validations, NoConfig, "ok", TRUE, "")
     /\ ret' = Ret(<<>>, r.int, Nil, TRUE)
     /\ log' = r.log
     /\ UNCHANGED <<values, files, openStreams, formats, maxSize, built>>

Image(field, config, io) ==
  LET r == ImageRun(files, field, config, io)
  IN /\ log' = r.log
     /\ Errors' = ApplyWrites(Errors, field, log')
     /\ call' = Call("Image", field, <<>>, config, io, TRUE, "")
     /\ ret' = Ret(<<>>, Int64Zero, r.file, TRUE)
     /\ openStreams' = openStreams + Opened(log') - Closed(log')
     /\ UNCHANGED <<values, files, formats, maxSize, built>>

Check(ok, field, message) ==
  /\ log' = IF ~ok THEN <<WriteEv(Msg(message, <<>>))>> ELSE <<>>
  /\ Errors' = ApplyWrites(Errors, field, log')
  /\ call' = Call("Check", field, <<>>, NoConfig, "ok", ok, message)
  /\ ret' = NoRet
  /\ UNCHANGED <<values, files, openStreams, formats, maxSize, built>>

Valid ==
  /\ call' = Call("Valid", "", <<>>, NoConfig, "ok", TRUE, "")
  /\ ret' = Ret(<<>>, Int64Zero, Nil, Cardinality(DOMAIN Errors) = 0)
  /\ log' = <<>>
  /\ UNCHANGED <<Errors, values, files, openStreams, formats, maxSize, built>>

\* The whole validator on a small form: every operation, on inputs taken
\* from the first entries of the input sets
CoreValues == {Empty, s_jo, s_25}
CoreFuncs == {VFRequired, VFMinLength(3)}
CoreLists == SeqsUpTo(CoreFuncs, MaxValidations)
CoreFiles ==
  { FileHeader(n_testjpg, 4, <<255, 216, 255, 224>>),
    FileHeader(n_testtxt, 2, <<104, 105>>),
    FileHeader(n_PHOTOJPG, 2, <<104, 105>>) }
CoreConfigs ==
  { ImageConfig(1 * MB, <<>>),
    FileValidationConfig(3, <<>>, <<>>) }

Next ==
  \/ \E f \in TextFields, v \in CoreValues : SetValue(f, v)
  \/ \E f \in FileFields, h \in CoreFiles : SetFile(f, Ptr(h))
  \/ \E f \in TextFields, vs \in CoreLists : String(f, vs)
  \/ \E f \in TextFields, vs \in CoreLists : IntField(f, vs)
  \/ \E f \in FileFields, c \in CoreConfigs, io \in IOSet : Image(f, c, io)
  \/ \E ok \in BOOLEAN, f \in Fields, m \in CheckMessages : Check(ok, f, m)
  \/ Valid

Spec == Init /\ [][Next]_vars

\* The typed accessors on every value and every list of ValidationFuncs
NextText ==
  \/ \E f \in TextFields, v \in ValueSet : SetValue(f, v)
  \/ \E f \in TextFields, vs \in ValidationLists : String(f, vs)
  \/ \E f \in TextFields, vs \in ValidationLists : IntField(f, vs)

SpecText == Init /\ [][NextText]_vars

\* Image on every file and every config
NextImage ==
  \/ \E f \in FileFields, p \in {Nil} \cup {Ptr(h) : h \in FileSet} : SetFile(f, p)
  \/ \E f \in FileFields, c \in ConfigSet, io \in IOSet : Image(f, c, io)

SpecImage == Init /\ [][NextImage]_vars

\* ------------------------------------------------------------------------
\* ImageConfig on its own: a call with a size limit and a list of names
\* ------------------------------------------------------------------------
ImageConfigCall(size, names) ==
  /\ formats' = names
  /\ maxSize' = size
  /\ built' = Ptr(ImageConfig(size, names))
  /\ UNCHANGED <<Errors, values, files, call, ret, log, openStreams>>

NextConfig == \E size \in MaxSizes, names \in FormatLists : ImageConfigCall(size, names)

SpecConfig == Init /\ [][NextConfig]_vars

\* ------------------------------------------------------------------------
\* Properties
\* ------------------------------------------------------------------------
\* the value the last call worked on
StoredValue == GetValue(values, call.field)

\* the position of the first ValidationFunc of the list that rejects the
\* value, 0 when every one accepts it
FirstFail(validations, field, value) ==
  LET F == {i \in 1..Len(validations) : ~Validate(validations[i], field, value).ok}
  IN IF F = {} THEN 0 ELSE CHOOSE i \in F : \A j \in F : i <= j

Evals(l) == SelectSeq(l, LAMBDA e : e.ev = "eval")

\* the validation loop of the last call evaluated the list in order on the
\* stored value, up to and including the first failure and no further
EvaluatedToFirstFailure ==
  LET k == FirstFail(call.validations, call.field, StoredValue)
      evals == Evals(log)
  IN /\ Len(evals) = (IF k = 0 THEN Len(call.validations) ELSE k)
     /\ \A i \in 1..Len(evals) :
          evals[i] = EvalEv(i, Validate(call.validations[i], call.field, StoredValue))

\* the message of the first failing ValidationFunc of the last call
FirstFailMessage ==
  LET k == FirstFail(call.validations, call.field, StoredValue)
  IN Validate(call.validations[k], call.field, StoredValue).message

StringPost ==
  LET k == FirstFail(call.validations, call.field, StoredValue)
  IN /\ EvaluatedToFirstFailure
     /\ k > 0 => /\ Writes(log) = <<WriteEv(FirstFailMessage)>>
                 /\ call.field \in DOMAIN Errors
                 /\ Errors[call.field] = FirstFailMessage
     /\ k = 0 => Writes(log) = <<>>
     /\ ret.str = StoredValue

\* C1: String evaluates the validations in list order on the stored value
\* and stops at the first one that fails; Errors[field] is then exactly that
\* validation's message and no later validation is evaluated; when none
\* fails the call leaves Errors as it was; String always returns the stored
\* raw value, and the value store is untouched.
C1_StringStopsAtFirstFailure ==
  /\ [](call.op = "String" => StringPost)
  /\ [][call'.op = "String" =>
          /\ values' = values
          /\ Writes(log') = <<>> => Errors' = Errors]_vars

\* a String call whose first validation failed while the next one, never
\* evaluated, would have failed with another message
C1_Witness ==
  /\ call.op = "String"
  /\ Len(call.validations) >= 2
  /\ FirstFail(call.validations, call.field, StoredValue) = 1
  /\ ~Validate(call.validations[2], call.field, StoredValue).ok
  /\ Validate(call.validations[2], call.field, StoredValue).message # FirstFailMessage
  /\ Errors[call.field] = FirstFailMessage
  /\ Len(Evals(log)) = 1

\* C2: when the stored value (absent and empty included) is not a base-10
\* 64-bit integer, Int returns 0 and leaves Errors[field] equal to "This
\* field must be a valid integer", whether the validations all passed or one
\* of them failed and recorded its message first.
C2_IntParseFailureWins ==
  (call.op = "Int" /\ ParseInt(StoredValue).err) =>
     /\ ret.int = Int64Zero
     /\ call.field \in DOMAIN Errors
     /\ Errors[call.field] = MsgInt
     /\ EvaluatedToFirstFailure

\* an Int call on a non-integer value in which a validation failed first
C2_Witness ==
  /\ call.op = "Int"
  /\ ParseInt(StoredValue).err
  /\ FirstFail(call.validations, call.field, StoredValue) > 0
  /\ Writes(log) = <<WriteEv(FirstFailMessage), WriteEv(MsgInt)>>
  /\ Errors[call.field] = MsgInt
  /\ ret.int = Int64Zero

IntParsedPost ==
  LET k == FirstFail(call.validations, call.field, StoredValue)
  IN /\ ret.int = ParseInt(StoredValue).val
     /\ EvaluatedToFirstFailure
     /\ k > 0 => /\ Writes(log) = <<WriteEv(FirstFailMessage)>>
                 /\ call.field \in DOMAIN Errors
                 /\ Errors[call.field] = FirstFailMessage
     /\ k = 0 => Writes(log) = <<>>

\* C9: when the stored value parses as the 64-bit integer n, Int returns n
\* also when a validation failed; Errors[field] then keeps the message of
\* the first failing validation, and when none failed the call leaves
\* Errors as it was.
C9_IntReturnsParsedValue ==
  /\ []((call.op = "Int" /\ ~ParseInt(StoredValue).err) => IntParsedPost)
  /\ [][call'.op = "Int" =>
          /\ values' = values
          /\ Writes(log') = <<>> => Errors' = Errors]_vars

\* Int on "25" with a failing validation: 25 is returned, the validation's
\* message stays
C9_Witness ==
  /\ call.op = "Int"
  /\ StoredValue = s_25
  /\ FirstFail(call.validations, call.field, StoredValue) > 0
  /\ ret.int = Int64(FALSE, <<2, 5>>)
  /\ Errors[call.field] = FirstFailMessage

\* C3 as stated: within one call of String, Int or Image the Errors entry of
\* the field is written at most once.
C3_WrittenAtMostOnce ==
  call.op \in {"String", "Int", "Image"} => Len(Writes(log)) <= 1

\* C3 amended: String and Image write the field's entry at most once per
\* call; in Int the validation loop writes it at most once and a failed
\* parse then writes it once more, replacing the validation's message by
\* the integer message; nothing else overwrites it.
C3_WrittenOnceExceptIntParse ==
  /\ call.op \in {"String", "Image"} => Len(Writes(log)) <= 1
  /\ call.op = "Int" =>
       LET w == Writes(log)
       IN /\ Len(w) <= 2
          /\ Len(w) = 2 => /\ ParseInt(StoredValue).err
                           /\ w[1] = WriteEv(FirstFailMessage)
                           /\ w[2] = WriteEv(MsgInt)
          /\ (Len(w) = 1 /\ ParseInt(StoredValue).err) => w[1] = WriteEv(MsgInt)

\* an Image call whose size check failed with the open and the read still
\* ahead of it, both failing: one write only
C3_Witness ==
  /\ call.op = "Image"
  /\ call.io # "ok"
  /\ Writes(log) = <<WriteEv(MsgSize(call.config.MaxSize))>>
  /\ Errors[call.field] = MsgSize(call.config.MaxSize)

\* ------------------------------------------------------------------------
\* Image
\* ------------------------------------------------------------------------
StoredFile == GetFile(files, call.field)

CheckRank(name) ==
  CASE name = "present" -> 1 [] name = "size" -> 2 [] name = "ext" -> 3
    [] name = "type" -> 4
IsCheck(e) == e.ev \in {"present", "size", "ext", "type"}
Checks(l) == SelectSeq(l, IsCheck)
HasEv(l, name) == \E i \in 1..Len(l) : l[i].ev = name
EvNamed(l, name) == l[CHOOSE i \in 1..Len(l) : l[i].ev = name]

\* the message of a failed check under the config of the last call
CheckMessage(name) ==
  CASE name = "present" -> MsgNoFile
    [] name = "size" -> MsgSize(call.config.MaxSize)
    [] name = "ext" -> MsgExt(call.config.AllowedExts)
    [] name = "type" -> MsgType(call.config.AllowedTypes)

\* the checks ran in the fixed order and a failed check is the last one
ChecksInOrder ==
  LET c == Checks(log)
  IN /\ \A i, j \in 1..Len(c) : i < j => CheckRank(c[i].ev) < CheckRank(c[j].ev)
     /\ \A i \in 1..Len(c) : ~c[i].ok => i = Len(c)

\* which checks run, and what each decides
ChecksAsConfigured ==
  LET cfg == call.config
      file == StoredFile
      sizeFails == cfg.MaxSize > 0 /\ file[1].Size > cfg.MaxSize
      extOk == \E i \in 1..Len(cfg.AllowedExts) :
                 ToLower(cfg.AllowedExts[i]) = ToLower(Ext(file[1].Filename))
  IN /\ HasEv(log, "present") /\ EvNamed(log, "present").ok = (file # Nil)
     /\ HasEv(log, "size") <=> (file # Nil /\ cfg.MaxSize > 0)
     /\ HasEv(log, "size") => EvNamed(log, "size").ok = ~sizeFails
     /\ HasEv(log, "ext") <=> (file # Nil /\ ~sizeFails /\ Len(cfg.AllowedExts) > 0)
     /\ HasEv(log, "ext") => EvNamed(log, "ext").ok = extOk
     /\ HasEv(log, "type") =>
          /\ Len(cfg.AllowedTypes) > 0
          /\ HasEv(log, "sniff")
          /\ EvNamed(log, "type").ok =
               (\E i \in 1..Len(cfg.AllowedTypes) :
                  HasPrefix(EvNamed(log, "sniff").data, cfg.AllowedTypes[i]))

\* a failed check decides the outcome; the handle comes back only when no
\* check failed and nothing was written
FirstFailureDecides ==
  LET c == Checks(log)
  IN /\ \A i \in 1..Len(c) : ~c[i].ok =>
          /\ Writes(log) = <<WriteEv(CheckMessage(c[i].ev))>>
          /\ call.field \in DOMAIN Errors
          /\ Errors[call.field] = CheckMessage(c[i].ev)
          /\ ret.file = Nil
          /\ SelectSeq(log, LAMBDA e : e.ev \in {"open", "read", "sniff"}
                                        /\ CheckRank(c[i].ev) < 4) = <<>>
     /\ ret.file # Nil => /\ ret.file = StoredFile
                          /\ \A i \in 1..Len(c) : c[i].ok
                          /\ Writes(log) = <<>>

\* C4: Image runs its checks in the order file present, size (only when
\* MaxSize > 0, failing iff size > MaxSize), extension (only when
\* AllowedExts is non-empty), sniffed type (only when AllowedTypes is
\* non-empty); the first failing check decides: its message is in
\* Errors[field], no later check runs, Image returns nil; the stored handle
\* is returned only when no check failed, and then Errors is left as it was.
C4_ImageFirstFailingCheckDecides ==
  /\ [](call.op = "Image" =>
          ChecksInOrder /\ ChecksAsConfigured /\ FirstFailureDecides)
  /\ [][call'.op = "Image" =>
          /\ files' = files
          /\ ret'.file # Nil => Errors' = Errors]_vars

\* the size check passed, the extension check failed, and the type check
\* the config asks for never ran
C4_Witness ==
  /\ call.op = "Image"
  /\ Len(call.config.AllowedTypes) > 0
  /\ HasEv(log, "size") /\ EvNamed(log, "size").ok
  /\ HasEv(log, "ext") /\ ~EvNamed(log, "ext").ok
  /\ ~HasEv(log, "type") /\ ~HasEv(log, "open")
  /\ Errors[call.field] = MsgExt(call.config.AllowedExts)
  /\ ret.file = Nil

\* C5: Image opens and reads the file only when AllowedTypes is non-empty;
\* with an empty AllowedTypes a present file that passes the size and the
\* extension check is returned with no error recorded, whatever the file
\* system does, and "Could not process file" / "Could not read file
\* content" are never recorded.
C5_OpensOnlyForTypeCheck ==
  (call.op = "Image" /\ Len(call.config.AllowedTypes) = 0) =>
     /\ ~HasEv(log, "open") /\ ~HasEv(log, "read")
     /\ \A i \in 1..Len(log) :
          log[i].ev = "write" => log[i].msg \notin {MsgOpen, MsgRead}
     /\ (StoredFile # Nil /\ \A i \in 1..Len(Checks(log)) : Checks(log)[i].ok)
          => (ret.file = StoredFile /\ Writes(log) = <<>>)

\* every successful open of the call is followed by a close, the close is
\* the last thing the call does, and a failed open is followed by no read
\* and no close
StreamsScoped ==
  /\ Opened(log) = Closed(log)
  /\ \A i \in 1..Len(log) :
       /\ log[i].ev = "close" =>
            /\ i = Len(log)
            /\ \E j \in 1..(i - 1) : log[j].ev = "open" /\ log[j].ok
       /\ (log[i].ev = "open" /\ log[i].ok) => log[Len(log)].ev = "close"
       /\ (log[i].ev = "open" /\ ~log[i].ok) =>
            \A j \in (i + 1)..Len(log) : log[j].ev \notin {"read", "close"}

\* C6: every stream Image opens is closed before Image returns, on every
\* exit path (read error, disallowed type, success); after any sequence of
\* calls no stream is left open, and a failed open leaves nothing to close.
C6_StreamsClosedOnEveryPath ==
  /\ openStreams = 0
  /\ call.op = "Image" => StreamsScoped

\* the read failed on an open stream, and the stream was closed
C6_Witness ==
  /\ call.op = "Image"
  /\ \E i \in 1..Len(log) : log[i].ev = "read" /\ ~log[i].ok
  /\ Opened(log) = 1
  /\ log[Len(log)].ev = "close"
  /\ Errors[call.field] = MsgRead
  /\ openStreams = 0

\* C7: the type compared against AllowedTypes is sniffed from exactly the
\* first min(512, length) bytes of the file, so that it is the type of the
\* file's own content, and the file is accepted iff that type starts with
\* a member of AllowedTypes.
C7_SniffsExactlyTheReadPrefix ==
  (call.op = "Image" /\ HasEv(log, "sniff")) =>
     LET content == StoredFile[1].content
         n == Min(SniffLen, Len(content))
         own == DetectContentType(SubSeq(content, 1, n))
     IN /\ EvNamed(log, "sniff").idx = n
        /\ EvNamed(log, "sniff").data = own
        /\ Len(call.config.AllowedTypes) > 0 =>
             (ret.file # Nil <=> ValidType(own, call.config.AllowedTypes))

\* ------------------------------------------------------------------------
\* ImageConfig
\* ------------------------------------------------------------------------
Range(q) == {q[i] : i \in 1..Len(q)}

\* the expansion of a format name as spelled: every spelling of jpg / jpeg
\* gives image/jpeg with .jpg and .jpeg, and so on; bmp is not recognised
ExpectedTypes(name) ==
  CASE name \in {s_jpg, s_jpeg, s_JPG} -> {MimeJPEG}
    [] name \in {s_png, s_Png} -> {MimePNG}
    [] name = s_gif -> {MimeGIF}
    [] name = s_webp -> {MimeWEBP}
    [] OTHER -> {}
ExpectedExts(name) ==
  CASE name \in {s_jpg, s_jpeg, s_JPG} -> {e_jpg, e_jpeg}
    [] name \in {s_png, s_Png} -> {e_png}
    [] name = s_gif -> {e_gif}
    [] name = s_webp -> {e_webp}
    [] OTHER -> {}

\* C8: ImageConfig(maxSize, formats...) returns MaxSize = maxSize and, as
\* sets, AllowedTypes and AllowedExts equal to the union of the expansions
\* of the recognised names, compared without regard to case; unrecognised
\* names contribute nothing; an empty list gives what the list jpg, jpeg,
\* png, gif, webp gives.
C8_ImageConfigExpandsFormats ==
  built # Nil =>
    LET cfg == built[1]
    IN /\ cfg.MaxSize = maxSize
       /\ formats # <<>> =>
            /\ Range(cfg.AllowedTypes) = UNION {ExpectedTypes(n) : n \in Range(formats)}
            /\ Range(cfg.AllowedExts) = UNION {ExpectedExts(n) : n \in Range(formats)}
       /\ formats = <<>> =>
            /\ Range(cfg.AllowedTypes) = {MimeJPEG, MimePNG, MimeGIF, MimeWEBP}
            /\ Range(cfg.AllowedExts) = {e_jpg, e_jpeg, e_png, e_gif, e_webp}

\* an upper-case name next to an unrecognised one: only the first counts
C8_Witness ==
  /\ built # Nil
  /\ formats = <<s_JPG, s_bmp>>
  /\ built[1].AllowedTypes = <<MimeJPEG>>
  /\ built[1].AllowedExts = <<e_jpg, e_jpeg>>

\* ------------------------------------------------------------------------
\* Frame
\* ------------------------------------------------------------------------
\* C10: a call of String, Int, Image or Check on field f changes nothing but
\* the Errors entry of f: the value store and the file store are unchanged
\* and every other field's Errors entry (present or absent, and its
\* message) is the same after the call as before.
C10_OnlyTheFieldsEntryChanges ==
  [][call'.op \in {"String", "Int", "Image", "Check"} =>
       /\ values' = values
       /\ files' = files
       /\ \A g \in Fields \ {call'.field} :
            /\ (g \in DOMAIN Errors') <=> (g \in DOMAIN Errors)
            /\ g \in DOMAIN Errors => Errors'[g] = Errors[g]]_vars

\* after an I/O failure recorded for the file field, a String call on the
\* text field ran its validations and recorded its own error; the I/O error
\* of the file field is still there
C10_Witness ==
  /\ call.op = "String"
  /\ call.field = "age"
  /\ "avatar" \in DOMAIN Errors
  /\ Errors["avatar"] \in {MsgOpen, MsgRead}
  /\ StringPost
  /\ Writes(log) # <<>>
  /\ Errors["age"] = FirstFailMessage

\* ------------------------------------------------------------------------
\* Errors only grows
\* ------------------------------------------------------------------------
\* the last call recorded a failure
RecordedFailure == Writes(log) # <<>>
\* the last call was Valid() and it returned false
ValidFalse == call.op = "Valid" /\ ~ret.valid

\* C11: no operation removes an entry from Errors: a field that has an
\* error keeps one through every later call (a failing call may replace the
\* message, a passing call or Check(true, ...) on the field leaves it), and
\* a call that records a failure leaves its field with an error.  Valid()
\* changes no state and returns whether Errors is empty; once it has
\* returned false it never returns true again; it returns false after any
\* recorded failure, and true as long as no call has recorded one.
C11_ErrorsNeverShrink ==
  /\ [][/\ DOMAIN Errors \subseteq DOMAIN Errors'
        /\ RecordedFailure' => call'.field \in DOMAIN Errors'
        /\ ~RecordedFailure' => Errors' = Errors
        /\ call'.op = "Valid" =>
             UNCHANGED <<Errors, values, files, openStreams>>]_vars
  /\ [](call.op = "Valid" => (ret.valid <=> DOMAIN Errors = {}))
  /\ [](ValidFalse => [](call.op = "Valid" => ~ret.valid))
  /\ [](RecordedFailure => [](call.op = "Valid" => ~ret.valid))
  /\ ([]~RecordedFailure) => [](call.op = "Valid" => ret.valid)

\* a call on a field that already has an error recorded nothing, and the
\* error is still there: a passing String, Int or Image, or Check(true, ...)
C11_Witness ==
  /\ call.op \in {"String", "Int", "Image", "Check"}
  /\ ~RecordedFailure
  /\ call.field \in DOMAIN Errors

=============================================================================
